---- MODULE Spec2Model ----
(***************************************************************************)
(* A model of md_to_ipynb.py, the converter of Lab markdown files to       *)
(* Jupyter notebooks.                                                       *)
(*                                                                          *)
(* A text is a sequence of characters, each character a one-letter string  *)
(* (BQ for the backquote).  The regular expressions of the source are      *)
(* translated to operators over such sequences, position by position       *)
(* (positions are 1-based here, 0-based in the source).                    *)
(***************************************************************************)
EXTENDS Integers, Sequences, FiniteSets, TLC

VARIABLES
    pc,         \* "input", "done": before, after the call of the function under
                \* study; "main": in main; "raised": an exception left main
    md_text,    \* the argument of the function under study
    source,     \* the value to_source returned
    cells,      \* the value md_to_cells returned
    nbcells,    \* the cell list convert_lab puts in the notebook
    title,      \* the value get_notebook_title returned
    fs,         \* the file system: path -> [exists, text]
    i,          \* main: index in labs of the next name of the for loop
    runs,       \* main: number of calls of main() begun in this process
    stdout,     \* the lines printed so far
    writes,     \* every write_text so far, in order: [md_name, input, data]
    COLAB_NOTEBOOK_METADATA   \* the module-level dictionary

vars == <<pc, md_text, source, cells, nbcells, title,
          fs, i, runs, stdout, writes, COLAB_NOTEBOOK_METADATA>>

----------------------------------------------------------------------------
(* Characters and texts *)

NL == "\n"
\* the backquote character, which a TLA+ string cannot hold
BQ == "BQ"
FENCE == <<BQ, BQ, BQ>>
PYFENCE == FENCE \o <<"p", "y", "t", "h", "o", "n">>

\* [ \t] of the patterns
IsHz(c) == c \in {" ", "\t"}

\* \s of the patterns, and what str.strip / str.rstrip remove
IsSpace(c) == c \in {" ", "\t", "\n", "\r", "\f"}

Min(S) == CHOOSE x \in S : \A y \in S : x <= y
Max(S) == CHOOSE x \in S : \A y \in S : y <= x

\* text[a..b], empty when b < a
Slice(s, a, b) == IF b < a THEN <<>> ELSE SubSeq(s, a, b)

\* the literal lit occurs in s at position p
HasAt(s, p, lit) ==
    /\ p >= 1
    /\ p + Len(lit) - 1 <= Len(s)
    /\ \A k \in 1..Len(lit) : s[p + k - 1] = lit[k]

\* "".join(lines)
RECURSIVE Join(_)
Join(lines) == IF lines = <<>> THEN <<>> ELSE Head(lines) \o Join(Tail(lines))

\* str.strip()
strip(s) ==
    LET keep == {k \in 1..Len(s) : ~IsSpace(s[k])}
    IN  IF keep = {} THEN <<>> ELSE SubSeq(s, Min(keep), Max(keep))

\* str.rstrip()
rstrip(s) ==
    LET keep == {k \in 1..Len(s) : ~IsSpace(s[k])}
    IN  IF keep = {} THEN <<>> ELSE SubSeq(s, 1, Max(keep))

\* text.split("\n"): the pieces between the line terminators, never empty
split(s) ==
    LET nls  == {k \in 1..Len(s) : s[k] = NL}
        cuts == {0} \cup nls \cup {Len(s) + 1}
        nxt(a) == Min({b \in cuts : b > a})
        RECURSIVE from(_)
        from(a) == IF a = Len(s) + 1 THEN <<>>
                   ELSE <<Slice(s, a + 1, nxt(a) - 1)>> \o from(nxt(a))
    IN  from(0)

----------------------------------------------------------------------------
(* to_source *)

\* A variant that leaves the last line without a terminator
to_source_bare_last(text) ==
    IF text = <<>> THEN <<>>
    ELSE LET lines == split(text)
             n     == Len(lines)
         IN  [k \in 1..(n - 1) |-> lines[k] \o <<NL>>]
             \o (IF lines[n] # <<>> THEN <<lines[n]>> ELSE <<>>)

to_source(text) ==
    IF text = <<>> THEN <<>>
    ELSE LET lines == split(text)
             n     == Len(lines)
         IN  [k \in 1..(n - 1) |-> lines[k] \o <<NL>>]
             \o (IF lines[n] # <<>> THEN <<lines[n] \o <<NL>>>> ELSE <<>>)

----------------------------------------------------------------------------
(* md_to_cells *)

\* [ \t]* from position p: the position after the run of blanks and tabs
SkipHz(s, p) == Min({j \in p..(Len(s) + 1) : j = Len(s) + 1 \/ ~IsHz(s[j])})

\* ^ under re.MULTILINE
AtLineStart(s, p) == p = 1 \/ (p - 1 <= Len(s) /\ s[p - 1] = NL)

\* $ under re.MULTILINE
AtLineEnd(s, p) == p = Len(s) + 1 \/ (p <= Len(s) /\ s[p] = NL)

\* $ without re.MULTILINE: the end, or just before a final line terminator
AtTextEnd(s, p) == p = Len(s) + 1 \/ (p = Len(s) /\ s[p] = NL)

\* ^```python[ \t]*\n at p: the position after it, 0 when it does not match
OpenAt(s, p) ==
    IF AtLineStart(s, p) /\ HasAt(s, p, PYFENCE)
    THEN LET j == SkipHz(s, p + Len(PYFENCE))
         IN  IF j <= Len(s) /\ s[j] = NL THEN j + 1 ELSE 0
    ELSE 0

\* \n^```[ \t]*$ at e
CloseAt(s, e) ==
    /\ e <= Len(s)
    /\ s[e] = NL
    /\ HasAt(s, e + 1, FENCE)
    /\ AtLineEnd(s, SkipHz(s, e + 1 + Len(FENCE)))

\* the positions where (.*?) may end once the opening matched before b: the
\* body is s[b..e-1] and the closing part matches at e
Closings(s, b) == {e \in b..Len(s) : CloseAt(s, e)}

\* the pattern of md_to_cells tried at position p: (.*?) is lazy, so the body
\* ends at the first closing; end is the position after the match
MatchAt(s, p) ==
    LET b == OpenAt(s, p)
    IN  IF b = 0 \/ Closings(s, b) = {} THEN [ok |-> FALSE]
        ELSE LET e == Min(Closings(s, b))
             IN  [ok |-> TRUE, start |-> p, group1 |-> Slice(s, b, e - 1),
                  end |-> SkipHz(s, e + 1 + Len(FENCE))]

\* pattern.finditer(md_text): the matches from left to right, each search
\* starting where the previous match ended
RECURSIVE finditer(_, _)
finditer(s, pos) ==
    LET starts == {p \in pos..Len(s) : MatchAt(s, p).ok}
    IN  IF starts = {} THEN <<>>
        ELSE LET m == MatchAt(s, Min(starts))
             IN  <<m>> \o finditer(s, m.end)

\* \s*```python[ \t]*\n?$ tried at position a of s: the position after the
\* match, 0 when it does not match
ArtifactAt(s, a) ==
    LET q == Min({j \in a..(Len(s) + 1) : j = Len(s) + 1 \/ ~IsSpace(s[j])})
    IN  IF ~HasAt(s, q, PYFENCE) THEN 0
        ELSE LET r == SkipHz(s, q + Len(PYFENCE))
             IN  IF r <= Len(s) /\ s[r] = NL /\ AtTextEnd(s, r + 1) THEN r + 1
                 ELSE IF AtTextEnd(s, r) THEN r
                 ELSE 0

\* re.sub(r"\s*```python[ \t]*\n?$", "", before)
sub_artifact(s) ==
    LET starts == {a \in 1..Len(s) : ArtifactAt(s, a) # 0}
    IN  IF starts = {} THEN s
        ELSE LET a == Min(starts)
             IN  Slice(s, 1, a - 1) \o Slice(s, ArtifactAt(s, a), Len(s))

markdown_cell(src) ==
    [cell_type |-> "markdown", metadata |-> <<>>, source |-> src]

code_cell(src) ==
    [cell_type |-> "code", metadata |-> <<>>, execution_count |-> "None",
     outputs |-> <<>>, source |-> src]

\* the cells one match adds: the markdown before it, if any, and its code
match_cells(s, last_end, m) ==
    LET before == strip(sub_artifact(Slice(s, last_end, m.start - 1)))
        code   == rstrip(m.group1)
    IN  (IF before # <<>> THEN <<markdown_cell(to_source(before))>> ELSE <<>>)
        \o <<code_cell(to_source(code))>>

\* A variant that does not trim the text after the last match
after_cells_untrimmed(s, last_end) ==
    LET after == Slice(s, last_end, Len(s))
    IN  IF after # <<>> THEN <<markdown_cell(to_source(after))>> ELSE <<>>

\* the markdown after the last match, if any
after_cells(s, last_end) ==
    LET after == strip(Slice(s, last_end, Len(s)))
    IN  IF after # <<>> THEN <<markdown_cell(to_source(after))>> ELSE <<>>

md_to_cells(s) ==
    LET ms == finditer(s, 1)
        last(k) == IF k = 0 THEN 1 ELSE ms[k].end
        RECURSIVE loop(_)
        loop(k) == IF k > Len(ms) THEN after_cells(s, last(Len(ms)))
                   ELSE match_cells(s, last(k - 1), ms[k]) \o loop(k + 1)
    IN  loop(1)

\* convert_lab: the cells of the notebook, with the fallback for no cells
notebook_cells(s) ==
    LET cs == md_to_cells(s)
    IN  IF cs = <<>> THEN <<markdown_cell(to_source(s))>> ELSE cs

\* get_notebook_title: ^#\s+(.+)$ under re.MULTILINE, tried by re.match at
\* the start of the text only.  \s+ is greedy and gives back; (.+) runs to
\* the end of its line.
get_notebook_title(text, stem) ==
    LET run  == Min({j \in 2..(Len(text) + 1) : j = Len(text) + 1 \/ ~IsSpace(text[j])})
        eol(g) == Min({j \in g..(Len(text) + 1) : AtLineEnd(text, j)})
        \* g: the start of (.+), after at least one \s, on a character . matches
        gs   == {g \in 3..run : g <= Len(text) /\ text[g] # NL}
    IN  IF HasAt(text, 1, <<"#">>) /\ gs # {}
        THEN LET g == Max(gs) IN strip(Slice(text, g, eol(g) - 1))
        ELSE stem

----------------------------------------------------------------------------
(* Bounded inputs *)

MaxLen == 5

RECURSIVE TextsOver(_, _)
TextsOver(A, n) ==
    IF n = 0 THEN {<<>>}
    ELSE LET shorter == TextsOver(A, n - 1)
         IN  shorter \cup {Append(t, c) : t \in {u \in shorter : Len(u) = n - 1}, c \in A}

SourceTexts == TextsOver({"a", " ", NL}, MaxLen)

Idle ==
    /\ source = <<>>
    /\ cells = <<>>
    /\ nbcells = <<>>
    /\ title = <<>>

\* the lines of `lines` joined by line terminators
RECURSIVE JoinNL(_)
JoinNL(lines) ==
    IF lines = <<>> THEN <<>>
    ELSE IF Len(lines) = 1 THEN lines[1]
    ELSE lines[1] \o <<NL>> \o JoinNL(Tail(lines))

\* every text made of at most n pieces of B, joined by line terminators, with
\* or without a final line terminator
RECURSIVE PieceSeqs(_, _)
PieceSeqs(B, n) ==
    IF n = 0 THEN {<<>>}
    ELSE LET shorter == PieceSeqs(B, n - 1)
         IN  shorter \cup {Append(t, b) : t \in {u \in shorter : Len(u) = n - 1}, b \in B}

TextsOf(B, n) ==
    LET joined == {JoinNL(ps) : ps \in PieceSeqs(B, n)}
    IN  joined \cup {t \o <<NL>> : t \in joined}

MaxBlocks == 3

OtherTag == FENCE \o <<"m">>

\* the pieces documents are made of
DocBlocks ==
    { PYFENCE \o <<NL, "x", NL>> \o FENCE,              \* a fence with a body
      PYFENCE \o <<NL>> \o FENCE,                       \* a fence with no inner line
      PYFENCE \o <<" ", NL, "y", NL>> \o FENCE \o <<" ">>,  \* blanks after the markers
      PYFENCE,                                          \* an opening line alone
      FENCE,                                            \* a bare fence line
      OtherTag \o <<NL, "g", NL>> \o FENCE,             \* a fence with another tag
      <<"x">>,                                          \* a line of text
      <<>>,                                             \* an empty line
      <<" ">>,                                          \* a line of one blank
      <<" ">> \o PYFENCE }                              \* an indented opening line

Documents == TextsOf(DocBlocks, MaxBlocks)

MaxTitleLines == 3

TitleLines ==
    { <<"#", " ", "T">>, <<"#", " ", " ", "T", " ">>, <<"#", "#", " ", "T">>,
      <<"#", "T">>, <<"#">>, <<"x">>, <<>>, <<" ", "#", " ", "T">> }

TitleTexts == TextsOf(TitleLines, MaxTitleLines)

\* the stem of the path get_notebook_title is called with
TitleStem == <<"L", "a", "b">>

----------------------------------------------------------------------------
(* SpecSource: to_source applied to every text of SourceTexts *)

InitSource ==
    /\ pc = "input"
    /\ md_text \in SourceTexts
    /\ Idle
    /\ fs = <<>> /\ i = 0 /\ runs = 0 /\ stdout = <<>> /\ writes = <<>>
    /\ COLAB_NOTEBOOK_METADATA = <<>>

CallToSource ==
    /\ pc = "input"
    /\ source' = to_source(md_text)
    /\ pc' = "done"
    /\ UNCHANGED <<md_text, cells, nbcells, title,
                   fs, i, runs, stdout, writes, COLAB_NOTEBOOK_METADATA>>

NextSource == CallToSource

SpecSource == InitSource /\ [][NextSource]_vars

EndsWithNL(s) == s # <<>> /\ s[Len(s)] = NL

\* C1 as stated: for every non-empty text, joining to_source(text) gives the
\* text back, also when the text does not end with a line terminator.
C1_RoundTrip ==
    (pc = "done" /\ md_text # <<>>) => Join(source) = md_text

\* C1 amended: for every non-empty text, joining to_source(text) gives the text
\* back when it ends with a line terminator, and the text followed by one line
\* terminator when it does not.
C1_JoinAddsTerminator ==
    (pc = "done" /\ md_text # <<>>) =>
        Join(source) = (IF EndsWithNL(md_text) THEN md_text ELSE md_text \o <<NL>>)

\* a text of two lines without a final terminator has been encoded
C1_Witness ==
    /\ pc = "done"
    /\ md_text = <<"a", NL, "a">>
    /\ Len(source) = 2

----------------------------------------------------------------------------
(* SpecCells: md_to_cells, and the fallback of convert_lab, applied to every *)
(* document of Documents                                                      *)

InitCells ==
    /\ pc = "input"
    /\ md_text \in Documents
    /\ Idle
    /\ fs = <<>> /\ i = 0 /\ runs = 0 /\ stdout = <<>> /\ writes = <<>>
    /\ COLAB_NOTEBOOK_METADATA = <<>>

CallMdToCells ==
    /\ pc = "input"
    /\ cells' = md_to_cells(md_text)
    /\ nbcells' = notebook_cells(md_text)
    /\ pc' = "done"
    /\ UNCHANGED <<md_text, source, title,
                   fs, i, runs, stdout, writes, COLAB_NOTEBOOK_METADATA>>

NextCells == CallMdToCells

SpecCells == InitCells /\ [][NextCells]_vars

(* What the claims say about a document, read off its lines *)

\* an opening line: ```python, blanks allowed after it
IsOpenLine(l) == HasAt(l, 1, PYFENCE) /\ SkipHz(l, Len(PYFENCE) + 1) = Len(l) + 1

\* a closing line: ``` alone, blanks allowed after it
IsCloseLine(l) == HasAt(l, 1, FENCE) /\ SkipHz(l, Len(FENCE) + 1) = Len(l) + 1

\* the first closing line after line k, 0 when there is none
NextClose(L, k) ==
    LET cs == {c \in (k + 1)..Len(L) : IsCloseLine(L[c])}
    IN  IF cs = {} THEN 0 ELSE Min(cs)

IsBlankStretch(L, a, b) == \A k \in a..b : strip(L[k]) = <<>>

\* the cells the claim C3 expects: <<"code", source>> for each complete fenced
\* region, <<"markdown", <<>>>> for each non-blank stretch around them
ExpectedShape(s) ==
    LET L == split(s)
        md(a, b) == IF IsBlankStretch(L, a, b) THEN <<>> ELSE << <<"markdown", <<>>>> >>
        RECURSIVE scan(_, _)
        scan(k, from) ==
            IF k > Len(L) THEN md(from, Len(L))
            ELSE IF IsOpenLine(L[k]) /\ NextClose(L, k) # 0
            THEN LET c == NextClose(L, k)
                     body == JoinNL(Slice(L, k + 1, c - 1))
                 IN  md(from, k - 1)
                     \o << <<"code", to_source(rstrip(body))>> >>
                     \o scan(c + 1, c + 1)
            ELSE scan(k + 1, from)
    IN  IF s = <<>> THEN <<>> ELSE scan(1, 1)

Shape(cs) ==
    [k \in 1..Len(cs) |->
        IF cs[k].cell_type = "code" THEN <<"code", cs[k].source>>
        ELSE <<"markdown", <<>>>>]

Contains(hay, needle) == \E p \in 1..(Len(hay) + 1) : HasAt(hay, p, needle)

\* the document has no complete ```python fenced region: no opening line
\* with a closing line after it
NoPythonFence(s) ==
    ~\E k \in 1..Len(split(s)) : IsOpenLine(split(s)[k]) /\ NextClose(split(s), k) # 0

\* C2 as stated: for a document with no ```python fence, the notebook holds
\* exactly one markdown cell, and joining its source gives the document text
\* back unchanged, leading and trailing whitespace included.
C2_NoFenceVerbatim ==
    (pc = "done" /\ NoPythonFence(md_text)) =>
        /\ Len(nbcells) = 1
        /\ nbcells[1].cell_type = "markdown"
        /\ Join(nbcells[1].source) = md_text

\* C2 amended: for a document with no ```python fence, the notebook holds
\* exactly one markdown cell; joining its source gives the document text with
\* leading and trailing whitespace trimmed, followed by one line terminator,
\* when the document is not blank, and, when it is blank, the document text,
\* followed by one line terminator unless it is empty or ends with one.
C2_NoFenceTrimmed ==
    (pc = "done" /\ NoPythonFence(md_text)) =>
        /\ Len(nbcells) = 1
        /\ nbcells[1].cell_type = "markdown"
        /\ Join(nbcells[1].source) =
              (IF strip(md_text) # <<>> THEN strip(md_text) \o <<NL>>
               ELSE IF md_text = <<>> \/ EndsWithNL(md_text) THEN md_text
               ELSE md_text \o <<NL>>)

\* a document without fence, with whitespace around its text, has been
\* converted to one cell that holds the trimmed text
C2_Witness ==
    /\ pc = "done"
    /\ md_text = <<NL, "x", NL, " ", NL>>
    /\ nbcells = <<markdown_cell(<< <<"x", NL>> >>)>>

\* C3 as stated: md_to_cells gives one code cell per complete ```python fenced
\* region, in order, its source the encoding of the right-trimmed inner text,
\* and one markdown cell per non-blank stretch before, between or after them.
C3_OneCellPerRegion ==
    pc = "done" => Shape(cells) = ExpectedShape(md_text)

\* the fences of the document opened by a line with another tag: <<a, c>>, the
\* opening line and the first closing line after it
OtherFences(L) ==
    {f \in (1..Len(L)) \X (1..Len(L)) :
        /\ HasAt(L[f[1]], 1, FENCE)
        /\ ~IsOpenLine(L[f[1]])
        /\ ~IsCloseLine(L[f[1]])
        /\ f[2] = NextClose(L, f[1])}

\* C4 as stated, for the fences opened with another tag: such a fence is never
\* made a code cell, whatever ```python fences surround it: the fence, markers
\* included, is found verbatim in the text of a markdown cell, and its opening
\* line in no code cell.
C4_OtherFenceStaysMarkdown ==
    pc = "done" =>
        LET L == split(md_text)
        IN  \A f \in OtherFences(L) :
                LET fence == JoinNL(Slice(L, f[1], f[2] - 1)) \o <<NL>> \o FENCE
                IN  /\ \E k \in 1..Len(cells) :
                            /\ cells[k].cell_type = "markdown"
                            /\ Contains(Join(cells[k].source), fence)
                    /\ \A k \in 1..Len(cells) :
                            cells[k].cell_type = "code" =>
                                ~Contains(Join(cells[k].source), L[f[1]])

\* C8 as stated: a ```python fence with no inner line (here the first two
\* lines of the document) gives one code cell with empty source, which
\* absorbs nothing of the text after the closing marker.
C8_EmptyFenceEmptyCell ==
    (pc = "done" /\ Len(split(md_text)) >= 2
        /\ IsOpenLine(split(md_text)[1]) /\ IsCloseLine(split(md_text)[2])) =>
        /\ cells # <<>>
        /\ cells[1] = code_cell(<<>>)

\* C9 as stated: no two adjacent cells of md_to_cells have the same type.
C9_NoAdjacentSameType ==
    pc = "done" =>
        \A k \in 1..(Len(cells) - 1) : cells[k].cell_type # cells[k + 1].cell_type

----------------------------------------------------------------------------
(* SpecTitle: get_notebook_title applied to every text of TitleTexts *)

InitTitle ==
    /\ pc = "input"
    /\ md_text \in TitleTexts
    /\ Idle
    /\ fs = <<>> /\ i = 0 /\ runs = 0 /\ stdout = <<>> /\ writes = <<>>
    /\ COLAB_NOTEBOOK_METADATA = <<>>

CallGetNotebookTitle ==
    /\ pc = "input"
    /\ title' = get_notebook_title(md_text, TitleStem)
    /\ pc' = "done"
    /\ UNCHANGED <<md_text, source, cells, nbcells,
                   fs, i, runs, stdout, writes, COLAB_NOTEBOOK_METADATA>>

NextTitle == CallGetNotebookTitle

SpecTitle == InitTitle /\ [][NextTitle]_vars

\* a top-level heading line: one #, whitespace, text
IsHeadingLine(l) ==
    /\ Len(l) >= 3
    /\ l[1] = "#"
    /\ IsSpace(l[2])
    /\ strip(Tail(l)) # <<>>

\* C6 as stated: the title is the trimmed text of the first top-level heading
\* line, wherever in the document it is, and the base name of the file exactly
\* when the document has no such line.
C6_FirstHeadingAnywhere ==
    pc = "done" =>
        LET L  == split(md_text)
            hs == {k \in 1..Len(L) : IsHeadingLine(L[k])}
        IN  title = (IF hs = {} THEN TitleStem ELSE strip(Tail(L[Min(hs)])))

----------------------------------------------------------------------------
(* convert_lab and main *)

\* a file name: Path(name).stem and its suffix
MdName(stem) == [stem |-> stem, suffix |-> ".md"]

\* Path.with_suffix
with_suffix(path, suffix) == [path EXCEPT !.suffix = suffix]

\* f"{Path(md_name).stem}.ipynb"
ipynb_name(md_name) == [stem |-> md_name.stem, suffix |-> ".ipynb"]

LabStems ==
    << "Lab0_Build_an_EOP_Agent_Prototype",
       "Lab1_Anatomy_of_a_Decision",
       "Lab2_Contract_of_a_Tool",
       "Lab3_The_Persistent_Agent",
       "Lab4_Graphs_Cycles_and_Recovery",
       "Lab5_Evidence_Chain_Extraction",
       "Lab6_Claim_Contingent_Disclosure",
       "Lab7_EOP_Spokesperson" >>

\* the model runs main over the first MaxLabs names of its list
MaxLabs == 3

\* the model lets the process call main() at most MaxRuns times
MaxRuns == 2

labs == [k \in 1..MaxLabs |-> MdName(LabStems[k])]

\* "name": "" before any conversion
NoName == [stem |-> "", suffix |-> ""]

ColabMetadata ==
    [colab |-> [name |-> NoName, provenance |-> <<>>, toc_visible |-> TRUE],
     kernelspec |-> [display_name |-> "Python 3", language |-> "python",
                     name |-> "python3"],
     language_info |-> [name |-> "python", version |-> "3.10.0"]]

\* A variant that hands the notebook the dictionary as it was before the
\* assignment of the name
notebook_metadata_stale(shared, md_name) == shared

\* metadata = dict(COLAB_NOTEBOOK_METADATA); metadata["colab"]["name"] = ...
\* dict() copies the top level only: metadata["colab"] is the very dictionary
\* COLAB_NOTEBOOK_METADATA["colab"] is, so the value after the assignment is
\* the value of both
notebook_metadata(shared, md_name) ==
    [shared EXCEPT !.colab.name = ipynb_name(md_name)]

\* json.dumps(nb, indent=2, ensure_ascii=False), as the sequence of its keys
\* and values in the order of the dictionaries; a text character by character
json_char(c) == IF c = NL THEN "\\n" ELSE IF c = "\t" THEN "\\t" ELSE c

json_text(t) == <<"\"">> \o [k \in 1..Len(t) |-> json_char(t[k])] \o <<"\"">>

RECURSIVE json_lines(_)
json_lines(ls) == IF ls = <<>> THEN <<>> ELSE json_text(Head(ls)) \o json_lines(Tail(ls))

json_cell(c) ==
    <<"{", "cell_type", c.cell_type, "metadata", "{}">>
    \o (IF c.cell_type = "code"
        THEN <<"execution_count", "null", "outputs", "[]">> ELSE <<>>)
    \o <<"source", "[">> \o json_lines(c.source) \o <<"]", "}">>

RECURSIVE json_cells(_)
json_cells(cs) == IF cs = <<>> THEN <<>> ELSE json_cell(Head(cs)) \o json_cells(Tail(cs))

json_colab_name(n) == <<"colab", "{", "name", "\"", n.stem, n.suffix, "\"">>

json_metadata(m) ==
    <<"metadata", "{">> \o json_colab_name(m.colab.name)
    \o <<"provenance", "[]", "toc_visible", "true", "}",
         "kernelspec", "{", "display_name", m.kernelspec.display_name,
         "language", m.kernelspec.language, "name", m.kernelspec.name, "}",
         "language_info", "{", "name", m.language_info.name,
         "version", m.language_info.version, "}", "}">>

json_dumps(nb) ==
    <<"{", "nbformat", ToString(nb.nbformat),
      "nbformat_minor", ToString(nb.nbformat_minor)>>
    \o json_metadata(nb.metadata)
    \o <<"cells", "[">> \o json_cells(nb.cells) \o <<"]", "}">>

NoFile == [exists |-> FALSE, text |-> <<>>]
File(t) == [exists |-> TRUE, text |-> t]

\* convert_lab, lines 82 to 92: the notebook of the cells cs is assembled,
\* serialized and written, and the line "Wrote ..." printed
write_notebook(md_name, files, shared, text, cs) ==
    [fs |-> [files EXCEPT ![with_suffix(md_name, ".ipynb")] =
                File(json_dumps([nbformat |-> 4, nbformat_minor |-> 5,
                                 metadata |-> notebook_metadata(shared, md_name),
                                 cells |-> cs]))],
     shared |-> [shared EXCEPT !.colab.name = ipynb_name(md_name)],
     raised |-> FALSE,
     printed |-> <<[msg |-> "Wrote", name |-> with_suffix(md_name, ".ipynb"),
                    ncells |-> Len(cs)]>>,
     written |-> <<[md_name |-> md_name, input |-> text]>>]

\* A variant whose missing-file branch raises instead of returning
convert_lab_raise(md_name, files, shared) ==
    IF ~files[md_name].exists
    THEN [fs |-> files, shared |-> shared, raised |-> TRUE,
          printed |-> <<>>, written |-> <<>>]
    ELSE write_notebook(md_name, files, shared, files[md_name].text,
                        notebook_cells(files[md_name].text))

\* convert_lab(md_name) on the file system `files`, with the module-level
\* dictionary `shared`: the file system and the dictionary after the call, what
\* it printed, which document it wrote a notebook for, and whether it raised.
\* (The title convert_lab computes is not used in the notebook.)
convert_lab(md_name, files, shared) ==
    IF ~files[md_name].exists
    THEN [fs |-> files, shared |-> shared, raised |-> FALSE,
          printed |-> <<[msg |-> "Skip (not found)", name |-> md_name]>>,
          written |-> <<>>]
    ELSE write_notebook(md_name, files, shared, files[md_name].text,
                        notebook_cells(files[md_name].text))

\* the documents the lab files may hold: a heading and a fence, a text
\* without code, an empty file
LabTexts ==
    { <<"#", " ", "T", NL, NL>> \o PYFENCE \o <<NL, "x", NL>> \o FENCE \o <<NL>>,
      <<"x">>,
      <<>> }

\* what a notebook file left by an earlier process holds
StaleNotebook == <<"{", "}">>

Paths == {labs[k] : k \in 1..Len(labs)}
            \cup {with_suffix(labs[k], ".ipynb") : k \in 1..Len(labs)}

Init ==
    /\ pc = "main"
    /\ i = 1
    /\ runs = 1
    /\ \E md \in [1..Len(labs) -> {NoFile} \cup {File(t) : t \in LabTexts}],
          nbs \in [1..Len(labs) -> {NoFile, File(StaleNotebook)}] :
          fs = [p \in Paths |->
                  LET k == CHOOSE n \in 1..Len(labs) : labs[n].stem = p.stem
                  IN  IF p.suffix = ".md" THEN md[k] ELSE nbs[k]]
    /\ stdout = <<>>
    /\ writes = <<>>
    /\ COLAB_NOTEBOOK_METADATA = ColabMetadata
    /\ md_text = <<>>
    /\ Idle

\* the log of write_text: the document converted and the bytes now in its
\* notebook file
WrittenData(written, files) ==
    [k \in 1..Len(written) |->
        [md_name |-> written[k].md_name, input |-> written[k].input,
         data |-> files[with_suffix(written[k].md_name, ".ipynb")].text]]

\* one turn of the for loop of main: convert_lab(labs[i])
MainStep ==
    /\ pc = "main"
    /\ i <= Len(labs)
    /\ \E r \in {convert_lab(labs[i], fs, COLAB_NOTEBOOK_METADATA)} :
           /\ fs' = r.fs
           /\ COLAB_NOTEBOOK_METADATA' = r.shared
           /\ stdout' = stdout \o r.printed
           /\ writes' = writes \o WrittenData(r.written, r.fs)
           /\ pc' = IF r.raised THEN "raised" ELSE "main"
    /\ i' = i + 1
    /\ UNCHANGED <<runs, md_text, source, cells, nbcells, title>>

\* main() returned and is called again in the same process
MainAgain ==
    /\ pc = "main"
    /\ i = Len(labs) + 1
    /\ runs < MaxRuns
    /\ runs' = runs + 1
    /\ i' = 1
    /\ UNCHANGED <<pc, fs, stdout, writes, COLAB_NOTEBOOK_METADATA,
                   md_text, source, cells, nbcells, title>>

Next == MainStep \/ MainAgain

Spec == Init /\ [][Next]_vars

MdExists(k) == fs[labs[k]].exists
Ipynb(k) == fs[with_suffix(labs[k], ".ipynb")]

\* the names main has passed to convert_lab so far
Processed(k) == runs > 1 \/ k < i

\* a write_text for labs[k] is in the log
Written(k) == \E w \in 1..Len(writes) : writes[w].md_name = labs[k]

\* C5: in a batch run, the step for a name whose markdown file is missing
\* leaves the file system as it is, raises nothing, and main goes on with the
\* next name: every name processed has printed its line, and a notebook has
\* been written for exactly the processed names whose markdown file exists.
C5_MissingSkipped ==
    /\ [](/\ pc # "raised"
          /\ Len(stdout) = (runs - 1) * Len(labs) + (i - 1)
          /\ \A k \in 1..Len(labs) :
                /\ Written(k) <=> (Processed(k) /\ MdExists(k))
                /\ Written(k) => (Ipynb(k).exists /\ Ipynb(k).text # StaleNotebook))
    /\ [][(pc = "main" /\ i <= Len(labs) /\ ~fs[labs[i]].exists) =>
             (fs' = fs /\ writes' = writes /\ pc' = "main" /\ i' = i + 1)]_vars

\* a run has ended in which the second file was missing, its stale notebook
\* left alone, and the first and the third were converted
C5_Witness ==
    /\ pc = "main" /\ i = Len(labs) + 1
    /\ MdExists(1) /\ ~MdExists(2) /\ MdExists(3)
    /\ Written(1) /\ ~Written(2) /\ Written(3)
    /\ Ipynb(2) = File(StaleNotebook)
    /\ stdout[2].msg = "Skip (not found)" /\ stdout[3].msg = "Wrote"

\* C7: two conversions of the same document (same name, same text) in one
\* process write the same bytes, whatever is converted in between, and the
\* colab name of every notebook written is the <stem>.ipynb of its document.
C7_SameInputSameBytes ==
    /\ \A a, b \in 1..Len(writes) :
          (writes[a].md_name = writes[b].md_name /\ writes[a].input = writes[b].input)
              => writes[a].data = writes[b].data
    /\ \A a \in 1..Len(writes) :
          Contains(writes[a].data, json_colab_name(ipynb_name(writes[a].md_name)))

\* a document has been converted twice with another one converted in between
C7_Witness ==
    \E a, b, c \in 1..Len(writes) :
        /\ a < b /\ b < c
        /\ writes[a].md_name = writes[c].md_name
        /\ writes[a].input = writes[c].input
        /\ writes[b].md_name # writes[a].md_name
        /\ writes[b].input # writes[a].input

\* C10 as stated: a call of convert_lab leaves COLAB_NOTEBOOK_METADATA, its
\* nested colab name included, as it was.
C10_MetadataUnchanged ==
    [][COLAB_NOTEBOOK_METADATA' = COLAB_NOTEBOOK_METADATA]_vars

====
